---- MODULE Spec2Model ----
(***************************************************************************)
(* Model of the cjs-timeline element (Timeline.ELEMENT) and of the event   *)
(* normalizer getTapeEventFromMessage.                                     *)
(*                                                                         *)
(* The element keeps a buffer tapeEvents of normalized events, fed by a    *)
(* historical fetch (getJourney) and by a live EventSource                 *)
(* (subscribeToStream).  Every handler of the element is one action.       *)
(***************************************************************************)
EXTENDS Integers, Sequences, FiniteSets, Bags, TLC

(***************************************************************************)
(* Bounds of the model.                                                    *)
(***************************************************************************)
\* number of distinct parseable instants the servers put on the wire
MaxTime == 3
\* largest value the limit property is set to
MaxLimit == 2
\* the handlers that insert are not taken when the buffer would grow past it
MaxLen == 3
\* historical fetches in flight at the same time
MaxPending == 2

(***************************************************************************)
(* Values of the properties.                                               *)
(***************************************************************************)
Null == "null"
Undefined == "undefined"
Streams == {"A", "B"}
StreamIds == Streams \cup {Null}
Filters == {Undefined, "f"}
Types == {"journey", "livestream", "journey-and-stream"}
Limits == 1..MaxLimit
\* the pagination attribute is left at its initial value
pagination == Null

(***************************************************************************)
(* luxon DateTime.fromISO: a DateTime is valid with its epoch value, or    *)
(* invalid; valueOf() of an invalid DateTime is NaN, and every comparison  *)
(* with NaN is false.                                                      *)
(***************************************************************************)
IsoInstants ==
  << "2024-01-01T00:00:00Z", "2024-01-02T00:00:00Z", "2024-01-03T00:00:00Z",
     "2024-01-04T00:00:00Z", "2024-01-05T00:00:00Z", "2024-01-06T00:00:00Z" >>
NotIso == "yesterday"
WireTimes == {IsoInstants[i] : i \in 1..MaxTime} \cup {NotIso}

Invalid == [isValid |-> FALSE, ts |-> 0]
fromISO(text) ==
  IF \E i \in DOMAIN IsoInstants : IsoInstants[i] = text
  THEN [isValid |-> TRUE, ts |-> CHOOSE i \in DOMAIN IsoInstants : IsoInstants[i] = text]
  ELSE Invalid

\* a < b and a > b on DateTime values (through valueOf)
Lt(a, b) == a.isValid /\ b.isValid /\ a.ts < b.ts
Gt(a, b) == a.isValid /\ b.isValid /\ a.ts > b.ts

(***************************************************************************)
(* Strings whose characters matter are sequences of characters.            *)
(***************************************************************************)
Anon == << "a", "n", "o", "n" >>

RECURSIVE indexOfFrom(_, _, _)
indexOfFrom(str, needle, from) ==
  IF from + Len(needle) > Len(str) THEN -1
  ELSE IF SubSeq(str, from + 1, from + Len(needle)) = needle THEN from
  ELSE indexOfFrom(str, needle, from + 1)

\* indexOf replaced by a test of the start of the string
indexOf_atStart(str, needle) ==
  IF Len(needle) <= Len(str) /\ SubSeq(str, 1, Len(needle)) = needle THEN 0 ELSE -1

\* String.prototype.indexOf: index of the first occurrence, from 0, or -1
indexOf(str, needle) == indexOfFrom(str, needle, 0)

\* truthiness of an optional string field of a message
Has(message, field) == field \in DOMAIN message
Truthy(message, field) == Has(message, field) /\ message[field] # << >>

(***************************************************************************)
(* getTapeEventFromMessage                                                 *)
(***************************************************************************)
WithPerson(event, message) ==
  IF Truthy(message, "person") /\ indexOf(message.person, Anon) = -1
  THEN [f \in DOMAIN event \cup {"person"} |->
          IF f = "person" THEN message.person ELSE event[f]]
  ELSE event

WithData(event, message) ==
  IF Has(message, "data") /\ message.data # Null
  THEN [f \in DOMAIN event \cup {"data"} |->
          IF f = "data" THEN message.data ELSE event[f]]
  ELSE event

getTapeEventFromMessage(message) ==
  LET event == [title |-> message.type,
                timestamp |-> fromISO(message.time),
                id |-> message.id]
  IN WithData(WithPerson(event, message), message)

(***************************************************************************)
(* The ordered buffer: enqueueEvent and dequeuePastOneEvent                *)
(***************************************************************************)
\* Array.prototype.shift: removes the element at index 0
dequeuePastOneEvent(tape) == IF tape = << >> THEN tape ELSE Tail(tape)

\* the element of tape that is missing from rest, rest being tape less one element
removedFrom(tape, rest) ==
  tape[CHOOSE i \in 1..Len(tape) :
         rest = SubSeq(tape, 1, i - 1) \o SubSeq(tape, i + 1, Len(tape))]

\* the loop as an if: one removal at most
evictLoop_once(tape, lim, typ) ==
  IF Len(tape) >= lim /\ typ = "livestream"
  THEN [kept |-> dequeuePastOneEvent(tape),
        dequeued |-> << removedFrom(tape, dequeuePastOneEvent(tape)) >>]
  ELSE [kept |-> tape, dequeued |-> << >>]

\* the loop without its test of the type
RECURSIVE evictLoop_anyType(_, _, _)
evictLoop_anyType(tape, lim, typ) ==
  IF Len(tape) >= lim
  THEN LET rest == evictLoop_anyType(dequeuePastOneEvent(tape), lim, typ) IN
       [kept |-> rest.kept,
        dequeued |-> << removedFrom(tape, dequeuePastOneEvent(tape)) >>
                     \o rest.dequeued]
  ELSE [kept |-> tape, dequeued |-> << >>]

\* the while loop at the head of enqueueEvent; limit >= 1 in every state.
\* [kept (the buffer it leaves), dequeued (what it removed, in that order)]
RECURSIVE evictLoop(_, _, _)
evictLoop(tape, lim, typ) ==
  IF Len(tape) >= lim /\ typ = "livestream"
  THEN LET rest == evictLoop(dequeuePastOneEvent(tape), lim, typ) IN
       [kept |-> rest.kept,
        dequeued |-> << removedFrom(tape, dequeuePastOneEvent(tape)) >>
                     \o rest.dequeued]
  ELSE [kept |-> tape, dequeued |-> << >>]

\* the scan with its comparison turned round
RECURSIVE scanIndex_lessThan(_, _, _)
scanIndex_lessThan(tape, event, currentIndex) ==
  IF currentIndex >= Len(tape) THEN Len(tape) + 1
  ELSE IF Lt(tape[currentIndex + 1].timestamp, event.timestamp)
       THEN scanIndex_lessThan(tape, event, currentIndex + 1)
       ELSE currentIndex

\* The linear scan.  currentIndex counts from 0; the loop reads
\* currentItem.timestamp before it tests currentIndex, so a currentIndex
\* equal to the length reads a field of undefined and throws: the result
\* is then Len(tape) + 1.
RECURSIVE scanIndex(_, _, _)
scanIndex(tape, event, currentIndex) ==
  IF currentIndex >= Len(tape) THEN Len(tape) + 1
  ELSE IF Gt(tape[currentIndex + 1].timestamp, event.timestamp)
       THEN scanIndex(tape, event, currentIndex + 1)
       ELSE currentIndex

\* Array.prototype.splice(index, 0, item)
splice(tape, index, item) ==
  SubSeq(tape, 1, index) \o << item >> \o SubSeq(tape, index + 1, Len(tape))

\* the insertion without its append branch: an event older than the whole
\* buffer goes to the scan
insertEvent_noAppend(tape, event) ==
  LET dataLength == Len(tape) IN
  IF dataLength = 0
  THEN [tape |-> << event >>, at |-> 1, threw |-> FALSE]
  ELSE IF Lt(tape[1].timestamp, event.timestamp)
  THEN [tape |-> << event >> \o tape, at |-> 1, threw |-> FALSE]
  ELSE LET currentIndex == scanIndex(tape, event, 0) IN
       IF currentIndex > dataLength
       THEN [tape |-> tape, at |-> 0, threw |-> TRUE]
       ELSE [tape |-> splice(tape, currentIndex, event),
             at |-> currentIndex + 1, threw |-> FALSE]

\* the insertion of enqueueEvent into the buffer the loop left:
\* [tape, at (position of the event from 1, 0 when it threw), threw]
insertEvent(tape, event) ==
  LET dataLength == Len(tape) IN
  IF dataLength = 0
  THEN [tape |-> << event >>, at |-> 1, threw |-> FALSE]
  ELSE IF Lt(tape[1].timestamp, event.timestamp)
  THEN [tape |-> << event >> \o tape, at |-> 1, threw |-> FALSE]
  ELSE IF Gt(tape[dataLength].timestamp, event.timestamp)
  THEN [tape |-> Append(tape, event), at |-> dataLength + 1, threw |-> FALSE]
  ELSE LET currentIndex == scanIndex(tape, event, 0) IN
       IF currentIndex > dataLength
       THEN [tape |-> tape, at |-> 0, threw |-> TRUE]
       ELSE [tape |-> splice(tape, currentIndex, event),
             at |-> currentIndex + 1, threw |-> FALSE]

\* enqueueEvent with the capacity enforced after the insertion, from the end
enqueueEvent_evictAfter(tape, lim, typ, event) ==
  LET r == insertEvent(tape, event)
      over == typ = "livestream" /\ Len(r.tape) > lim
  IN [tape |-> IF over THEN SubSeq(r.tape, 1, lim) ELSE r.tape,
      at |-> r.at, threw |-> r.threw,
      dequeued |-> IF over THEN SubSeq(r.tape, lim + 1, Len(r.tape)) ELSE << >>]

\* enqueueEvent on a buffer: [tape, at, threw, dequeued]
enqueueEvent(tape, lim, typ, event) ==
  LET loop == evictLoop(tape, lim, typ)
      r == insertEvent(loop.kept, event)
  IN [tape |-> r.tape, at |-> r.at, threw |-> r.threw, dequeued |-> loop.dequeued]

\* enqueueEvent for each event of a list in turn, as Array.prototype.map
\* calls it; an exception ends the map.
\* [tape, threw, calls, dequeued (of all the calls), at (of the last call)]
RECURSIVE enqueueAll(_, _, _, _)
enqueueAll(tape, lim, typ, events) ==
  IF events = << >>
  THEN [tape |-> tape, threw |-> FALSE, calls |-> 0, dequeued |-> << >>, at |-> 0]
  ELSE LET r == enqueueEvent(tape, lim, typ, Head(events)) IN
       IF r.threw \/ Tail(events) = << >>
       THEN [tape |-> r.tape, threw |-> r.threw, calls |-> 1,
             dequeued |-> r.dequeued, at |-> r.at]
       ELSE LET rest == enqueueAll(r.tape, lim, typ, Tail(events)) IN
            [tape |-> rest.tape, threw |-> rest.threw, calls |-> 1 + rest.calls,
             dequeued |-> r.dequeued \o rest.dequeued, at |-> rest.at]

(***************************************************************************)
(* State of the element and of its environment.                            *)
(***************************************************************************)
VARIABLES
  tapeEvents,   \* this.tapeEvents, index 0 first
  type,         \* this.type
  limit,        \* this.limit
  streamId,     \* this.streamId
  filter,       \* this.filter
  eventSource,  \* this.eventSource: the url and readyState of the object it holds
  handles,      \* bag of the urls of the EventSource objects that are open
  pending,      \* bag of the urls of the historical fetches in flight
  lastOp,       \* the handler that ran last
  issued,       \* network operations the last handler started
  enqueued,     \* enqueueEvent calls the last handler made
  dequeued,     \* the events dequeuePastOneEvent removed in the last handler
  insertedAt,   \* position in tapeEvents of the event of the last enqueueEvent call
  lastEvent,    \* the event given to the last enqueueEvent call
  threw,        \* the last handler ended in an exception
  changed,      \* changedProperties of the last updated()
  cleared,      \* the last updated() discarded a buffer that held events
  arrived,      \* timestamps enqueued since the buffer was last cleared
  raw,          \* the message given to getTapeEventFromMessage on its own
  normalized    \* what it returned

vars == << tapeEvents, type, limit, streamId, filter, eventSource, handles,
           pending, lastOp, issued, enqueued, dequeued, insertedAt, lastEvent,
           threw, changed, cleared, arrived, raw, normalized >>

DefaultLimit == 5
NoUrl == [path |-> "none", streamId |-> Null, filter |-> Undefined, page |-> Null]
NoSource == [url |-> NoUrl, readyState |-> "none"]
NoOps == [fetch |-> 0, open |-> 0]
NothingArrived == [ts |-> {}, plain |-> TRUE]
Mixed == [ts |-> {}, plain |-> FALSE]

NoChange == << >>
NoMessage == [type |-> "none"]
NoEvent == [title |-> "none"]

Constructed ==
  /\ tapeEvents = << >>
  /\ type = "livestream"
  /\ limit = DefaultLimit
  /\ streamId = Null
  /\ filter = Undefined
  /\ eventSource = NoSource
  /\ handles = EmptyBag
  /\ pending = EmptyBag
  /\ lastOp = "constructor"
  /\ issued = NoOps
  /\ enqueued = 0
  /\ dequeued = << >>
  /\ insertedAt = 0
  /\ lastEvent = NoEvent
  /\ threw = FALSE
  /\ changed = NoChange
  /\ cleared = FALSE
  /\ arrived = NothingArrived

Init ==
  /\ Constructed
  /\ raw = NoMessage
  /\ normalized = NoEvent

(***************************************************************************)
(* getAPIQueryParams, getJourney, subscribeToStream                        *)
(***************************************************************************)
getAPIQueryParams(sid, flt, forJourney) ==
  [streamId |-> sid,
   filter |-> flt,
   page |-> IF pagination # Null THEN pagination
            ELSE IF forJourney THEN "$top=10" ELSE Null]

Url(path, query) ==
  [path |-> path, streamId |-> query.streamId, filter |-> query.filter,
   page |-> query.page]

JourneyUrl(sid, flt) == Url("journey", getAPIQueryParams(sid, flt, TRUE))
RealTimeUrl(sid, flt) == Url("real-time", getAPIQueryParams(sid, flt, FALSE))

One(u) == SetToBag({u})

\* subscribeToStream starts a fetch in these modes
Fetches(typ) == typ = "journey" \/ typ = "journey-and-stream"
\* an EventSource opened whatever the type
Opens_always(typ) == TRUE

\* an EventSource opened in livestream mode alone
Opens_livestreamOnly(typ) == typ = "livestream"

\* subscribeToStream opens an EventSource in these modes
Opens(typ) == typ # "journey"

\* this.eventSource.close() when this.eventSource is set
closedSource(es) ==
  IF es.readyState = "none" THEN es ELSE [es EXCEPT !.readyState = "closed"]
\* subscribeToStream without the close() of the EventSource it replaces
closedHandles_leaks(es, open) == open

closedHandles(es, open) ==
  IF es.readyState = "open" THEN open (-) One(es.url) ELSE open

\* subscribeToStream emptying the buffer as updated() does
tapeAfterSubscribe_cleared(tape) == << >>

\* subscribeToStream assigns nothing to this.tapeEvents
tapeAfterSubscribe(tape) == tape

\* subscribeToStream with the properties as they are when it is called
subscribeToStream(sid, flt, typ) ==
  /\ pending' = IF Fetches(typ) THEN pending (+) One(JourneyUrl(sid, flt))
                ELSE pending
  /\ eventSource' = IF Opens(typ)
                    THEN [url |-> RealTimeUrl(sid, flt), readyState |-> "open"]
                    ELSE closedSource(eventSource)
  /\ handles' = IF Opens(typ)
                THEN closedHandles(eventSource, handles) (+) One(RealTimeUrl(sid, flt))
                ELSE closedHandles(eventSource, handles)
  /\ issued' = [fetch |-> IF Fetches(typ) THEN 1 ELSE 0,
                open |-> IF Opens(typ) THEN 1 ELSE 0]

\* the model takes no step that would put more than MaxPending fetches in flight
CanSubscribe(typ) == Fetches(typ) => BagCardinality(pending) < MaxPending

\* a handler other than updated()
NotUpdated ==
  /\ changed' = NoChange
  /\ cleared' = FALSE
  /\ UNCHANGED << raw, normalized >>

NoEnqueue ==
  /\ enqueued' = 0
  /\ dequeued' = << >>
  /\ insertedAt' = 0
  /\ lastEvent' = NoEvent
  /\ threw' = FALSE

(***************************************************************************)
(* arrived: the timestamps enqueued since the buffer was last cleared, as  *)
(* long as every one of them was valid, new, and enqueued in livestream    *)
(* mode under the limit that is still set.                                 *)
(***************************************************************************)
arriveOne(arr, typ, event) ==
  IF /\ arr.plain
     /\ typ = "livestream"
     /\ event.timestamp.isValid
     /\ event.timestamp.ts \notin arr.ts
  THEN [ts |-> arr.ts \cup {event.timestamp.ts}, plain |-> TRUE]
  ELSE Mixed

RECURSIVE arriveAll(_, _, _)
arriveAll(arr, typ, events) ==
  IF events = << >> THEN arr
  ELSE arriveAll(arriveOne(arr, typ, Head(events)), typ, Tail(events))

(***************************************************************************)
(* updated(changedProperties), run by LitElement after property changes.   *)
(* changedProperties maps the names of the changed properties to their old *)
(* values; sid, flt, typ are the values the properties have now.           *)
(***************************************************************************)
\* the flag without its filter branch
Flag_streamOnly(changedProperties, sid, flt) ==
  \E name \in DOMAIN changedProperties : name = "streamId" /\ sid # Null

Flag(changedProperties, sid, flt) ==
  \E name \in DOMAIN changedProperties :
    \/ name = "streamId" /\ sid # Null
    \/ name = "filter" /\ flt # changedProperties[name] /\ sid # Null

\* updated() without the assignment that empties the buffer
resetTape_keeps(flag, tape) == tape

\* this.tapeEvents = [] under the flag
resetTape(flag, tape) == IF flag THEN << >> ELSE tape

updated(changedProperties, sid, flt, typ) ==
  /\ Flag(changedProperties, sid, flt) => CanSubscribe(typ)
  /\ tapeEvents' = resetTape(Flag(changedProperties, sid, flt), tapeEvents)
  /\ IF Flag(changedProperties, sid, flt)
     THEN /\ arrived' = IF tapeEvents' = << >> THEN NothingArrived ELSE Mixed
          /\ subscribeToStream(sid, flt, typ)
     ELSE /\ UNCHANGED << eventSource, handles, pending >>
          /\ issued' = NoOps
          /\ arrived' = IF DOMAIN changedProperties \cap {"type", "limit"} # {}
                           /\ arrived # NothingArrived
                        THEN Mixed ELSE arrived
  /\ lastOp' = "updated"
  /\ changed' = changedProperties
  /\ cleared' = (tapeEvents # << >> /\ tapeEvents' = << >>)
  /\ UNCHANGED << raw, normalized >>
  /\ NoEnqueue

SetStreamId(s) ==
  /\ s # streamId
  /\ streamId' = s
  /\ UNCHANGED << filter, type, limit >>
  /\ updated([streamId |-> streamId], s, filter, type)

SetFilter(f) ==
  /\ f # filter
  /\ filter' = f
  /\ UNCHANGED << streamId, type, limit >>
  /\ updated([filter |-> filter], streamId, f, type)

\* both attributes set in the same task: one updated() for the two
SetStreamIdAndFilter(s, f) ==
  /\ s # streamId
  /\ f # filter
  /\ streamId' = s
  /\ filter' = f
  /\ UNCHANGED << type, limit >>
  /\ updated([streamId |-> streamId, filter |-> filter], s, f, type)

SetType(t) ==
  /\ t # type
  /\ type' = t
  /\ UNCHANGED << streamId, filter, limit >>
  /\ updated([type |-> type], streamId, filter, t)

SetLimit(n) ==
  /\ n # limit
  /\ limit' = n
  /\ UNCHANGED << streamId, filter, type >>
  /\ updated([limit |-> limit], streamId, filter, type)

(***************************************************************************)
(* The callbacks.                                                          *)
(***************************************************************************)
\* what the servers send
EventId(s) == IF s = "A" THEN "A-1001" ELSE "B-2001"
StreamOf(id) == IF id = "A-1001" THEN "A" ELSE "B"
Message(s, time) == [type |-> "Page Visit", time |-> time, id |-> EventId(s)]
Messages(u, times) ==
  IF u.streamId \in Streams THEN {Message(u.streamId, t) : t \in times} ELSE {}
\* a response body: a JSON array of at most two messages
Bodies(u, times) ==
  {<< >>} \cup {<< m >> : m \in Messages(u, times)}
          \cup {<< m, n >> : m \in Messages(u, times), n \in Messages(u, times)}
\* the data of a server-sent event: text that is not JSON (the keep-alive),
\* the JSON null, or the JSON of a message
Payloads(u, times) ==
  {[kind |-> "text", value |-> Message("A", NotIso)],
   [kind |-> "null", value |-> Message("A", NotIso)]}
  \cup {[kind |-> "object", value |-> m] : m \in Messages(u, times)}

\* JSON.parse: throws on text that is not JSON; otherwise the value, of which
\* the handler only tests the truthiness
JSONparse(payload) ==
  [threw |-> payload.kind = "text", truthy |-> payload.kind = "object"]

\* JSON.parse outside a try: its exception leaves the handler
tryParse_noCatch(payload) ==
  [escaped |-> JSONparse(payload).threw,
   data |-> ~JSONparse(payload).threw /\ JSONparse(payload).truthy]

\* try { data = JSON.parse(event.data) } catch (err) { }: data stays
\* undefined when JSON.parse throws, and the exception goes no further
tryParse(payload) ==
  [escaped |-> FALSE,
   data |-> ~JSONparse(payload).threw /\ JSONparse(payload).truthy]

Enqueue(events) ==
  LET r == enqueueAll(tapeEvents, limit, type, events) IN
  /\ Len(r.tape) <= MaxLen
  /\ tapeEvents' = r.tape
  /\ enqueued' = r.calls
  /\ dequeued' = r.dequeued
  /\ insertedAt' = r.at
  /\ lastEvent' = IF r.calls = 0 THEN NoEvent ELSE events[r.calls]
  /\ threw' = r.threw
  /\ arrived' = arriveAll(arrived, type, SubSeq(events, 1, r.calls))

\* getJourney: the second then() of the fetch
FetchThen(u, body) ==
  /\ BagIn(u, pending)
  /\ pending' = pending (-) One(u)
  /\ Enqueue([i \in 1..Len(body) |-> getTapeEventFromMessage(body[i])])
  /\ lastOp' = "getJourney.then"
  /\ issued' = NoOps
  /\ NotUpdated
  /\ UNCHANGED << type, limit, streamId, filter, eventSource, handles >>

\* getJourney: the fetch or x.json() rejects; nothing handles the rejection
FetchRejected(u) ==
  /\ BagIn(u, pending)
  /\ pending' = pending (-) One(u)
  /\ lastOp' = "getJourney.rejected"
  /\ issued' = NoOps
  /\ NotUpdated
  /\ NoEnqueue
  /\ UNCHANGED << tapeEvents, arrived, type, limit, streamId, filter,
                  eventSource, handles >>

\* eventSource.onmessage of an open EventSource
OnMessage(u, payload) ==
  /\ BagIn(u, handles)
  /\ IF tryParse(payload).escaped
     THEN /\ enqueued' = 0
          /\ dequeued' = << >>
          /\ insertedAt' = 0
          /\ lastEvent' = NoEvent
          /\ threw' = TRUE
          /\ UNCHANGED << tapeEvents, arrived >>
     ELSE IF tryParse(payload).data
     THEN Enqueue(<< getTapeEventFromMessage(payload.value) >>)
     ELSE NoEnqueue /\ UNCHANGED << tapeEvents, arrived >>
  /\ lastOp' = IF payload.kind = "text" THEN "onmessage.notJSON" ELSE "onmessage"
  /\ issued' = NoOps
  /\ NotUpdated
  /\ UNCHANGED << type, limit, streamId, filter, eventSource, handles, pending >>

\* eventSource.onerror of an open EventSource
OnError(u) ==
  /\ BagIn(u, handles)
  /\ CanSubscribe(type)
  /\ subscribeToStream(streamId, filter, type)
  /\ tapeEvents' = tapeAfterSubscribe(tapeEvents)
  /\ lastOp' = "onerror"
  /\ NotUpdated
  /\ NoEnqueue
  /\ UNCHANGED << arrived, type, limit, streamId, filter >>

\* subscribeToStream called on the element by its host
CallSubscribeToStream ==
  /\ CanSubscribe(type)
  /\ subscribeToStream(streamId, filter, type)
  /\ tapeEvents' = tapeAfterSubscribe(tapeEvents)
  /\ lastOp' = "subscribeToStream"
  /\ NotUpdated
  /\ NoEnqueue
  /\ UNCHANGED << arrived, type, limit, streamId, filter >>

(***************************************************************************)
(* Spec: the element among streams A and B and two filters; the servers    *)
(* stamp every event with the same instant.  The transport fails, and the  *)
(* host calls subscribeToStream, only while stream-id is set.              *)
(***************************************************************************)
OneTime == {IsoInstants[1]}

Next ==
  \/ \E s \in StreamIds : SetStreamId(s)
  \/ \E f \in Filters : SetFilter(f)
  \/ \E s \in StreamIds, f \in Filters : SetStreamIdAndFilter(s, f)
  \/ \E t \in Types : SetType(t)
  \/ \E u \in BagToSet(pending) : \E body \in Bodies(u, OneTime) : FetchThen(u, body)
  \/ \E u \in BagToSet(pending) : FetchRejected(u)
  \/ \E u \in BagToSet(handles) : \E p \in Payloads(u, OneTime) : OnMessage(u, p)
  \/ \E u \in BagToSet(handles) : streamId # Null /\ OnError(u)
  \/ streamId # Null /\ CallSubscribeToStream

Spec == Init /\ [][Next]_vars

(***************************************************************************)
(* SpecBuffer: the element on stream A, its type and limit changing; the   *)
(* servers send events of every instant, and events whose time is no ISO   *)
(* instant.  The host sets stream-id only while no fetch is in flight.     *)
(***************************************************************************)
NextBuffer ==
  \/ \E s \in {"A", Null} : pending = EmptyBag /\ SetStreamId(s)
  \/ \E t \in Types : SetType(t)
  \/ \E n \in Limits : SetLimit(n)
  \/ \E u \in BagToSet(pending) : \E body \in Bodies(u, WireTimes) : FetchThen(u, body)
  \/ \E u \in BagToSet(handles) : \E p \in Payloads(u, WireTimes) : OnMessage(u, p)

SpecBuffer == Init /\ [][NextBuffer]_vars

(***************************************************************************)
(* SpecNorm: getTapeEventFromMessage on its own, on every message of a     *)
(* bounded set.                                                            *)
(***************************************************************************)
Chars(word) ==
  CASE word = "" -> << >>
    [] word = "alice" -> << "a", "l", "i", "c", "e" >>
    [] word = "anon-123" -> << "a", "n", "o", "n", "-", "1", "2", "3" >>
    [] word = "canon" -> << "c", "a", "n", "o", "n" >>
    [] word = "an-on" -> << "a", "n", "-", "o", "n" >>
    [] word = "ano" -> << "a", "n", "o" >>
    [] word = "Anon" -> << "A", "n", "o", "n" >>
    [] word = "ananon" -> << "a", "n", "a", "n", "o", "n" >>

Persons == {Chars(w) : w \in {"", "alice", "anon-123", "canon", "an-on", "ano",
                              "Anon", "ananon"}}
Datas == {Null, "{}"}

Core == [type : {"Page Visit", "Identify"}, time : WireTimes,
         id : {EventId(s) : s \in Streams}]
RawMessages ==
  Core
  \cup {[type |-> c.type, time |-> c.time, id |-> c.id, person |-> who] :
          c \in Core, who \in Persons}
  \cup {[type |-> c.type, time |-> c.time, id |-> c.id, data |-> d] :
          c \in Core, d \in Datas}
  \cup {[type |-> c.type, time |-> c.time, id |-> c.id, person |-> who, data |-> d] :
          c \in Core, who \in Persons, d \in Datas}

InitNorm ==
  /\ Constructed
  /\ raw \in RawMessages
  /\ normalized = NoEvent

Normalize ==
  /\ normalized = NoEvent
  /\ normalized' = getTapeEventFromMessage(raw)
  /\ lastOp' = "getTapeEventFromMessage"
  /\ UNCHANGED << raw, tapeEvents, type, limit, streamId, filter, eventSource,
                  handles, pending, issued, enqueued, dequeued, insertedAt, lastEvent,
                  threw, changed, cleared, arrived >>

NextNorm == Normalize

SpecNorm == InitNorm /\ [][NextNorm]_vars

(***************************************************************************)
(* Properties of the ordered buffer (SpecBuffer).                          *)
(***************************************************************************)
AllValid(tape) == \A i \in DOMAIN tape : tape[i].timestamp.isValid
TimesOf(tape) == [i \in DOMAIN tape |-> tape[i].timestamp.ts]
NonIncreasing(tape) ==
  \A i \in DOMAIN tape : \A j \in DOMAIN tape :
    i < j => tape[i].timestamp.ts >= tape[j].timestamp.ts
Inserting == enqueued > 0

\* C1: while every buffered timestamp is a valid instant, tapeEvents is sorted
\* by timestamp, non-increasing from index 0 to the end, after every handler,
\* those in which the capacity loop removed events included.
C1_Sorted == AllValid(tapeEvents) => NonIncreasing(tapeEvents)

\* an insertion whose capacity loop removed an event and whose event landed
\* behind a newer one
C1_Witness ==
  /\ enqueued = 1
  /\ dequeued # << >>
  /\ AllValid(tapeEvents)
  /\ Len(tapeEvents) = 2
  /\ insertedAt = 2
  /\ tapeEvents[1].timestamp.ts > tapeEvents[2].timestamp.ts

\* C2: in livestream mode, after a handler that called enqueueEvent the buffer
\* holds at most limit events, however many it held before.
C2_AtMostLimit ==
  (Inserting /\ type = "livestream") => Len(tapeEvents) <= limit

\* an insertion in livestream mode into a buffer that was longer than limit
C2_Witness ==
  /\ enqueued = 1
  /\ type = "livestream"
  /\ Len(dequeued) >= 2
  /\ Len(tapeEvents) = limit

\* C3: the events the capacity loop removes are the oldest: none of them is
\* newer than an event that stays in the buffer.
C3_EvictsOldest ==
  (enqueued = 1 /\ dequeued # << >>) =>
    \A i \in DOMAIN dequeued : \A j \in DOMAIN tapeEvents \ {insertedAt} :
      ~Gt(dequeued[i].timestamp, tapeEvents[j].timestamp)

\* the n largest elements of a set of integers, largest first
Max(S) == CHOOSE m \in S : \A x \in S : x <= m
RECURSIVE Newest(_, _)
Newest(S, n) ==
  IF S = {} \/ n = 0 THEN << >>
  ELSE << Max(S) >> \o Newest(S \ {Max(S)}, n - 1)

\* C4: in livestream mode under limit N, after k insertions of events with
\* distinct timestamps since the buffer was last cleared, the buffer holds the
\* min(N, k) newest of them, newest first.
C4_HoldsNewest ==
  arrived.plain => TimesOf(tapeEvents) = Newest(arrived.ts, limit)

\* a step is one of the handlers that insert
InsertStep == lastOp' \in {"getJourney.then", "onmessage"}
RECURSIVE IsSubSeq(_, _)
IsSubSeq(a, b) ==
  IF a = << >> THEN TRUE
  ELSE IF b = << >> THEN FALSE
  ELSE IF Head(a) = Head(b) THEN IsSubSeq(Tail(a), Tail(b))
  ELSE IsSubSeq(a, Tail(b))

StreamSwitched ==
  /\ lastOp = "updated"
  /\ "streamId" \in DOMAIN changed
  /\ changed.streamId \in Streams
  /\ streamId \in Streams

\* C5: when streamId changes from one set value to another, updated() leaves
\* the buffer empty, so that the next insertion finds none of the events the
\* buffer held before the change.
C5_EmptiedOnSwitch == StreamSwitched => tapeEvents = << >>

\* a switch of stream that discarded buffered events
C5_Witness == StreamSwitched /\ cleared /\ tapeEvents = << >>

\* C6: the items of a historical fetch that resolves after the descriptor has
\* changed are not inserted: while streamId is set, the buffer holds no event
\* of another stream.
C6_NoStaleEvents ==
  streamId \in Streams =>
    \A i \in DOMAIN tapeEvents : StreamOf(tapeEvents[i].id) = streamId

\* C7: subscribeToStream called with streamId, filter, pagination and mode as
\* they were when the open EventSource was created starts no fetch and opens
\* no EventSource.
C7_IdempotentResubscribe ==
  [][(/\ lastOp' = "subscribeToStream"
      /\ eventSource.readyState = "open"
      /\ eventSource.url = RealTimeUrl(streamId, filter)
      /\ Opens(type))
     => issued' = NoOps]_vars

\* C8: a message whose data is not JSON leaves the buffer as it was, throws
\* nothing out of the handler, and leaves the EventSource open, with no new
\* subscription.
C8_NotJSONIgnored ==
  [][lastOp' = "onmessage.notJSON" =>
       /\ tapeEvents' = tapeEvents
       /\ ~threw'
       /\ enqueued' = 0
       /\ eventSource' = eventSource
       /\ handles' = handles
       /\ pending' = pending
       /\ issued' = NoOps]_vars

\* a message that is not JSON, delivered while the buffer holds events
C8_Witness ==
  /\ lastOp = "onmessage.notJSON"
  /\ tapeEvents # << >>
  /\ eventSource.readyState = "open"
  /\ BagIn(eventSource.url, handles)

(***************************************************************************)
(* Properties of the normalizer (SpecNorm).                                *)
(***************************************************************************)
Normalized == lastOp = "getTapeEventFromMessage"
Contains(str, needle) ==
  \E i \in 0..(Len(str) - Len(needle)) : SubSeq(str, i + 1, i + Len(needle)) = needle
PersonKept == "person" \in DOMAIN normalized /\ normalized.person = raw.person

\* C10, as claimed: the event has a person, the raw one, if and only if the
\* message has a person field that does not contain "anon".
C10_PersonIffPresent ==
  Normalized =>
    /\ ("person" \in DOMAIN normalized) <=>
         (Has(raw, "person") /\ ~Contains(raw.person, Anon))
    /\ "person" \in DOMAIN normalized => normalized.person = raw.person

\* C10, amended: the event has a person, the raw one, if and only if the
\* message has a person field that is not the empty string and does not
\* contain "anon".
C10_PersonIffNonEmpty ==
  Normalized =>
    /\ ("person" \in DOMAIN normalized) <=>
         (Has(raw, "person") /\ raw.person # << >> /\ ~Contains(raw.person, Anon))
    /\ "person" \in DOMAIN normalized => normalized.person = raw.person

\* a message whose person holds the letters of "anon" with another between
\* them: the event keeps it
C10_Witness ==
  /\ Normalized
  /\ Has(raw, "person")
  /\ raw.person = Chars("an-on")
  /\ PersonKept

(***************************************************************************)
(* Further properties of the coordinator (Spec).                           *)
(***************************************************************************)
\* the last handler called subscribeToStream
Subscribed ==
  \/ lastOp \in {"subscribeToStream", "onerror"}
  \/ lastOp = "updated" /\ "streamId" \in DOMAIN changed /\ streamId \in Streams

\* C11: subscribeToStream starts a fetch exactly in the journey and
\* journey-and-stream modes and opens an EventSource exactly in the livestream
\* and journey-and-stream modes; after it in journey mode no EventSource is open.
C11_ModeDecides ==
  Subscribed =>
    /\ issued.fetch = 1 <=> type \in {"journey", "journey-and-stream"}
    /\ issued.open = 1 <=> type \in {"livestream", "journey-and-stream"}
    /\ type = "journey" =>
         handles = EmptyBag /\ eventSource.readyState # "open"

\* subscribeToStream in journey mode, with an EventSource it had to close
C11_Witness ==
  /\ lastOp = "subscribeToStream"
  /\ type = "journey"
  /\ eventSource.readyState = "closed"
  /\ issued = [fetch |-> 1, open |-> 0]

\* updated() emptied the buffer and subscribed again
Resubscribed == tapeEvents = << >> /\ issued # NoOps

\* C12, as claimed: every change of streamId, to whatever value, and every
\* change of filter while streamId is set, empties the buffer and subscribes
\* again.
C12_EveryChangeResets ==
  (/\ lastOp = "updated"
   /\ \/ "streamId" \in DOMAIN changed
      \/ "filter" \in DOMAIN changed /\ streamId \in Streams)
  => Resubscribed

\* C12, amended: every change of streamId to a set value, and every change of
\* filter while streamId is set, empties the buffer and subscribes again.
C12_ChangeToSetResets ==
  (/\ lastOp = "updated"
   /\ streamId \in Streams
   /\ \/ "streamId" \in DOMAIN changed
      \/ "filter" \in DOMAIN changed)
  => Resubscribed

\* a change of filter alone, under a set streamId, that discarded events
C12_Witness ==
  /\ lastOp = "updated"
  /\ DOMAIN changed = {"filter"}
  /\ streamId \in Streams
  /\ cleared
  /\ Resubscribed

\* C15: at most one EventSource is open, and it is the one this.eventSource
\* holds.
C15_OneHandle ==
  /\ BagCardinality(handles) <= 1
  /\ handles # EmptyBag =>
       eventSource.readyState = "open" /\ BagIn(eventSource.url, handles)

\* after the error of an open EventSource and the new subscription, one
\* EventSource is open
C15_Witness ==
  /\ lastOp = "onerror"
  /\ type # "journey"
  /\ BagCardinality(handles) = 1

\* this.eventSource is open, for the streamId and filter of now
LiveForCurrent ==
  /\ eventSource = [url |-> RealTimeUrl(streamId, filter), readyState |-> "open"]
  /\ BagIn(eventSource.url, handles)
  /\ issued.open = 1

\* C16, as claimed: after every onerror an EventSource is open for the
\* current descriptor.
C16_ErrorReopens == lastOp = "onerror" => LiveForCurrent

\* C16, amended: after every onerror under a type other than journey an
\* EventSource is open for the current descriptor.
C16_ErrorReopensLive ==
  (lastOp = "onerror" /\ type # "journey") => LiveForCurrent

\* an error in journey-and-stream mode, answered by a new EventSource
C16_Witness ==
  /\ lastOp = "onerror"
  /\ type = "journey-and-stream"
  /\ LiveForCurrent

\* C17: onerror leaves the buffer as it was.
C17_ErrorKeepsBuffer ==
  [][lastOp' = "onerror" => tapeEvents' = tapeEvents]_vars

\* an error while the buffer holds events
C17_Witness ==
  /\ lastOp = "onerror"
  /\ tapeEvents # << >>

\* C18: the new subscription after an error starts no historical fetch.
C18_ErrorFetchesNothing == lastOp = "onerror" => issued.fetch = 0

(***************************************************************************)
(* Further properties of the ordered buffer (SpecBuffer).                  *)
(***************************************************************************)
\* C13: in journey-and-stream mode, after the insertion of an event of the
\* live stream the buffer holds at most limit events.
C13_LiveHalfBounded ==
  (lastOp = "onmessage" /\ Inserting /\ type = "journey-and-stream")
  => Len(tapeEvents) <= limit

\* C14: an event whose time is no ISO instant is never in the buffer.
C14_UnparseableDropped == AllValid(tapeEvents)

\* C19: after enqueueEvent the event it was given is in the buffer, at the
\* position the insertion chose.
C19_EventPresent ==
  Inserting =>
    /\ insertedAt \in DOMAIN tapeEvents
    /\ tapeEvents[insertedAt] = lastEvent

\* an event older than the one the capacity loop removed, and in the buffer
C19_Witness ==
  /\ enqueued = 1
  /\ type = "livestream"
  /\ Len(dequeued) = 1
  /\ lastEvent.timestamp.isValid
  /\ Gt(dequeued[1].timestamp, lastEvent.timestamp)
  /\ Len(tapeEvents) = limit
  /\ tapeEvents[Len(tapeEvents)] = lastEvent

\* C20: the scan stops inside the buffer: no enqueueEvent call reads past the
\* last element, which would throw.
C20_ScanInBounds == ~threw /\ (Inserting => insertedAt <= Len(tapeEvents))

\* an event that the scan placed between a newer and an older one
C20_Witness ==
  /\ enqueued = 1
  /\ Len(tapeEvents) = 3
  /\ insertedAt = 2
  /\ AllValid(tapeEvents)
  /\ tapeEvents[1].timestamp.ts > tapeEvents[2].timestamp.ts
  /\ tapeEvents[2].timestamp.ts > tapeEvents[3].timestamp.ts

====
